---- MODULE Spec2Model ----
(***************************************************************************)
(* Model of the GEDS contact finder (src/app.py): the enrichment of the    *)
(* roster (create_acronym, role label, Team / TeamParent, searchable       *)
(* department) and the cascading filter of the page script.                *)
(*                                                                         *)
(* A Python str is a sequence of one-character strings; None is the one    *)
(* sequence <<"None">>, which is no str because "None" is no character.    *)
(***************************************************************************)
EXTENDS Integers, Sequences, FiniteSets, TLC

VARIABLES
    name,                 \* argument of create_acronym / TopLevelDepartmentEN
    acronym,              \* create_acronym(name)
    SearchableDepartment, \* the derived column for that name
    apc,                  \* "call" before, "done" after line 60 ran on name
    raw_row,              \* one raw row: CanonicalRole, DepartmentPathEN
    out_row,              \* its RoleDisplayName, Team, TeamParent
    rpc,                  \* "call" before, "done" after lines 57-59 ran
    pc,                   \* position of the page script
    raw,                  \* rows of SELECT * FROM contacts
    df_master,
    departments,
    roles_for_display,
    selected_searchable_departments,
    df_filtered,
    roles_in_filtered_df,
    selected_roles_display,
    teams_in_filtered_df,
    teams_to_include,
    teams_to_exclude,
    shown                 \* what the run rendered below the rule (lines 140-158)

avars == <<name, acronym, SearchableDepartment, apc>>
rvars == <<raw_row, out_row, rpc>>
pvars == <<pc, raw, df_master, departments, roles_for_display,
           selected_searchable_departments, df_filtered, roles_in_filtered_df,
           selected_roles_display, teams_in_filtered_df, teams_to_include,
           teams_to_exclude, shown>>
vars == <<avars, rvars, pvars>>

----------------------------------------------------------------------------
(* Bounds of the model *)
MaxNameLen == 5
MaxPathLen == 6
MaxRows == 3

----------------------------------------------------------------------------
(* Python values *)

None == <<"None">>
Unset == <<"Unset">>

\* the characters of code 32..95 and of code 97..126
AsciiLow ==
    <<" ", "!", "\"", "#", "$", "%", "&", "'", "(", ")", "*", "+", ",", "-",
      ".", "/", "0", "1", "2", "3", "4", "5", "6", "7", "8", "9", ":", ";",
      "<", "=", ">", "?", "@", "A", "B", "C", "D", "E", "F", "G", "H", "I",
      "J", "K", "L", "M", "N", "O", "P", "Q", "R", "S", "T", "U", "V", "W",
      "X", "Y", "Z", "[", "\\", "]", "^", "_">>

AsciiHigh ==
    <<"a", "b", "c", "d", "e", "f", "g", "h", "i", "j", "k", "l", "m", "n",
      "o", "p", "q", "r", "s", "t", "u", "v", "w", "x", "y", "z", "{", "|",
      "}", "~">>

Whitespace == {" ", "\t", "\n", "\r", "\f"}

Char ==
    {AsciiLow[i] : i \in 1..Len(AsciiLow)}
        \cup {AsciiHigh[i] : i \in 1..Len(AsciiHigh)} \cup Whitespace

\* ord(c) and chr(n)
ord(c) ==
    CASE c = "\t" -> 9
      [] c = "\n" -> 10
      [] c = "\f" -> 12
      [] c = "\r" -> 13
      [] \E i \in 1..Len(AsciiHigh) : AsciiHigh[i] = c
           -> 96 + (CHOOSE i \in 1..Len(AsciiHigh) : AsciiHigh[i] = c)
      [] OTHER -> 31 + (CHOOSE i \in 1..Len(AsciiLow) : AsciiLow[i] = c)

chr(n) == IF n > 96 THEN AsciiHigh[n - 96] ELSE AsciiLow[n - 31]

\* isinstance(v, str)
isinstance_str(v) == \A i \in 1..Len(v) : v[i] \in Char

\* pandas isnull / what dropna() drops
isnull(v) == v = None

IsUpperChar(c) == c \in Char /\ ord(c) >= ord("A") /\ ord(c) <= ord("Z")
IsLowerChar(c) == c \in Char /\ ord(c) >= ord("a") /\ ord(c) <= ord("z")

\* c.upper() and c.lower() of one character
upper(c) == IF IsLowerChar(c) THEN chr(ord(c) - 32) ELSE c
lower(c) == IF IsUpperChar(c) THEN chr(ord(c) + 32) ELSE c

\* word.lower()
str_lower(w) == [i \in 1..Len(w) |-> lower(w[i])]

\* a < b on str: lexicographic by code point
RECURSIVE str_lt(_, _)
str_lt(a, b) ==
    IF b = <<>> THEN FALSE
    ELSE IF a = <<>> THEN TRUE
    ELSE IF a[1] = b[1] THEN str_lt(Tail(a), Tail(b))
    ELSE ord(a[1]) < ord(b[1])

SetMin(S) == CHOOSE x \in S : \A y \in S : x <= y
SetMax(S) == CHOOSE x \in S : \A y \in S : x >= y

----------------------------------------------------------------------------
(* create_acronym, src/app.py lines 11-15 *)

stop_words ==
    { <<"o", "f">>, <<"a", "n", "d">>, <<"t", "h", "e">>, <<"f", "o", "r">>,
      <<"e", "t">>, <<"d", "e", "s">>, <<"l", "a">>, <<"l", "e">> }

\* the ends j of a match of \(.*\) that starts at s[i]: '.' matches no newline
ParenEnds(s, i) ==
    { j \in (i + 1)..Len(s) :
        s[j] = ")" /\ \A k \in (i + 1)..(j - 1) : s[k] # "\n" }

\* re.sub(r'\(.*\)', '', s) from position pos on: leftmost match, greedy
RECURSIVE re_sub_from(_, _)
re_sub_from(s, pos) ==
    LET starts == { i \in pos..Len(s) : s[i] = "(" /\ ParenEnds(s, i) # {} }
    IN  IF starts = {} THEN SubSeq(s, pos, Len(s))
        ELSE LET i == SetMin(starts)
                 j == SetMax(ParenEnds(s, i))
             IN  SubSeq(s, pos, i - 1) \o re_sub_from(s, j + 1)

re_sub_parens(s) == re_sub_from(s, 1)

\* s.strip()
strip(s) ==
    LET keep == { i \in 1..Len(s) : s[i] \notin Whitespace }
    IN  IF keep = {} THEN <<>> ELSE SubSeq(s, SetMin(keep), SetMax(keep))

\* s.split(): the maximal runs of non-whitespace characters
RECURSIVE split_ws(_)
split_ws(s) ==
    IF s = <<>> THEN <<>>
    ELSE IF s[1] \in Whitespace THEN split_ws(Tail(s))
    ELSE LET ws == { i \in 1..Len(s) : s[i] \in Whitespace }
             n  == IF ws = {} THEN Len(s) + 1 ELSE SetMin(ws)
         IN  <<SubSeq(s, 1, n - 1)>> \o split_ws(SubSeq(s, n, Len(s)))

\* "".join(word[0].upper() for word in words if word.lower() not in stop_words)
RECURSIVE join_initials(_)
join_initials(words) ==
    IF words = <<>> THEN <<>>
    ELSE (IF str_lower(words[1]) \notin stop_words
          THEN <<upper(words[1][1])>> ELSE <<>>)
         \o join_initials(Tail(words))

create_acronym(n) ==
    IF ~isinstance_str(n) THEN <<>>
    ELSE LET name_no_parens == strip(re_sub_parens(n))
         IN  join_initials(split_ws(name_no_parens))

\* line 60: f"{create_acronym(name)} - {name}" if create_acronym(name) else name
searchable_department(n) ==
    IF create_acronym(n) # <<>>
    THEN create_acronym(n) \o <<" ", "-", " ">> \o n
    ELSE n

----------------------------------------------------------------------------
(* load_and_process_data, src/app.py lines 28-62 *)

role_hierarchy ==
    \* "minister": "01 - Minister"
       <<"m", "i", "n", "i", "s", "t", "e", "r">>
        :> <<"0", "1", " ", "-", " ", "M", "i", "n", "i", "s", "t", "e", "r">>
    \* "deputy minister": "02 - Deputy Minister"
    @@ <<"d", "e", "p", "u", "t", "y", " ", "m", "i", "n", "i", "s", "t", "e", "r">>
        :> <<"0", "2", " ", "-", " ", "D", "e", "p", "u", "t", "y", " ", "M", "i", "n", "i", "s", "t", "e", "r">>
    \* "assistant deputy minister": "03 - Associate/Assistant Deputy Minister"
    @@ <<"a", "s", "s", "i", "s", "t", "a", "n", "t", " ", "d", "e", "p", "u", "t", "y", " ", "m", "i", "n", "i", "s", "t", "e", "r">>
        :> <<"0", "3", " ", "-", " ", "A", "s", "s", "o", "c", "i", "a", "t", "e", "/", "A", "s", "s", "i", "s", "t", "a", "n", "t", " ", "D", "e", "p", "u", "t", "y", " ", "M", "i", "n", "i", "s", "t", "e", "r">>
    \* "associate assistant deputy minister": "03.5 - Associate Assistant Deputy Minister"
    @@ <<"a", "s", "s", "o", "c", "i", "a", "t", "e", " ", "a", "s", "s", "i", "s", "t", "a", "n", "t", " ", "d", "e", "p", "u", "t", "y", " ", "m", "i", "n", "i", "s", "t", "e", "r">>
        :> <<"0", "3", ".", "5", " ", "-", " ", "A", "s", "s", "o", "c", "i", "a", "t", "e", " ", "A", "s", "s", "i", "s", "t", "a", "n", "t", " ", "D", "e", "p", "u", "t", "y", " ", "M", "i", "n", "i", "s", "t", "e", "r">>
    \* "chief of staff": "04 - Chief of Staff"
    @@ <<"c", "h", "i", "e", "f", " ", "o", "f", " ", "s", "t", "a", "f", "f">>
        :> <<"0", "4", " ", "-", " ", "C", "h", "i", "e", "f", " ", "o", "f", " ", "S", "t", "a", "f", "f">>
    \* "chief/commissioner": "05 - Chief / President / Commissioner"
    @@ <<"c", "h", "i", "e", "f", "/", "c", "o", "m", "m", "i", "s", "s", "i", "o", "n", "e", "r">>
        :> <<"0", "5", " ", "-", " ", "C", "h", "i", "e", "f", " ", "/", " ", "P", "r", "e", "s", "i", "d", "e", "n", "t", " ", "/", " ", "C", "o", "m", "m", "i", "s", "s", "i", "o", "n", "e", "r">>
    \* "vice-president": "06 - Vice-President"
    @@ <<"v", "i", "c", "e", "-", "p", "r", "e", "s", "i", "d", "e", "n", "t">>
        :> <<"0", "6", " ", "-", " ", "V", "i", "c", "e", "-", "P", "r", "e", "s", "i", "d", "e", "n", "t">>
    \* "director general": "07 - Director General"
    @@ <<"d", "i", "r", "e", "c", "t", "o", "r", " ", "g", "e", "n", "e", "r", "a", "l">>
        :> <<"0", "7", " ", "-", " ", "D", "i", "r", "e", "c", "t", "o", "r", " ", "G", "e", "n", "e", "r", "a", "l">>
    \* "executive director": "08 - Executive Director"
    @@ <<"e", "x", "e", "c", "u", "t", "i", "v", "e", " ", "d", "i", "r", "e", "c", "t", "o", "r">>
        :> <<"0", "8", " ", "-", " ", "E", "x", "e", "c", "u", "t", "i", "v", "e", " ", "D", "i", "r", "e", "c", "t", "o", "r">>
    \* "director": "09 - Director"
    @@ <<"d", "i", "r", "e", "c", "t", "o", "r">>
        :> <<"0", "9", " ", "-", " ", "D", "i", "r", "e", "c", "t", "o", "r">>
    \* "manager": "10 - Manager"
    @@ <<"m", "a", "n", "a", "g", "e", "r">>
        :> <<"1", "0", " ", "-", " ", "M", "a", "n", "a", "g", "e", "r">>
    \* "principal/senior advisor": "11 - Senior Advisor"
    @@ <<"p", "r", "i", "n", "c", "i", "p", "a", "l", "/", "s", "e", "n", "i", "o", "r", " ", "a", "d", "v", "i", "s", "o", "r">>
        :> <<"1", "1", " ", "-", " ", "S", "e", "n", "i", "o", "r", " ", "A", "d", "v", "i", "s", "o", "r">>
    \* "senior policy professional": "12 - Senior Analyst"
    @@ <<"s", "e", "n", "i", "o", "r", " ", "p", "o", "l", "i", "c", "y", " ", "p", "r", "o", "f", "e", "s", "s", "i", "o", "n", "a", "l">>
        :> <<"1", "2", " ", "-", " ", "S", "e", "n", "i", "o", "r", " ", "A", "n", "a", "l", "y", "s", "t">>
    \* "scientist/researcher": "13 - Scientist / Researcher"
    @@ <<"s", "c", "i", "e", "n", "t", "i", "s", "t", "/", "r", "e", "s", "e", "a", "r", "c", "h", "e", "r">>
        :> <<"1", "3", " ", "-", " ", "S", "c", "i", "e", "n", "t", "i", "s", "t", " ", "/", " ", "R", "e", "s", "e", "a", "r", "c", "h", "e", "r">>
    \* "specialist/lead": "14 - Specialist / Lead"
    @@ <<"s", "p", "e", "c", "i", "a", "l", "i", "s", "t", "/", "l", "e", "a", "d">>
        :> <<"1", "4", " ", "-", " ", "S", "p", "e", "c", "i", "a", "l", "i", "s", "t", " ", "/", " ", "L", "e", "a", "d">>
    \* "governor": "15 - Governor"
    @@ <<"g", "o", "v", "e", "r", "n", "o", "r">>
        :> <<"1", "5", " ", "-", " ", "G", "o", "v", "e", "r", "n", "o", "r">>
    \* "secretary": "16 - Secretary"
    @@ <<"s", "e", "c", "r", "e", "t", "a", "r", "y">>
        :> <<"1", "6", " ", "-", " ", "S", "e", "c", "r", "e", "t", "a", "r", "y">>
    \* "executive assistant": "17 - Executive Assistant"
    @@ <<"e", "x", "e", "c", "u", "t", "i", "v", "e", " ", "a", "s", "s", "i", "s", "t", "a", "n", "t">>
        :> <<"1", "7", " ", "-", " ", "E", "x", "e", "c", "u", "t", "i", "v", "e", " ", "A", "s", "s", "i", "s", "t", "a", "n", "t">>

\* Series.map(dict): the value of the key, NaN for a value that is no key
map_role(role) ==
    IF role \in DOMAIN role_hierarchy THEN role_hierarchy[role] ELSE None

\* faulty variant of fillna: the fallback left out
fillna_nothing(v, other) == v

\* Series.fillna(other), element by element
fillna(v, other) == IF isnull(v) THEN other ELSE v

\* line 57
role_display_name(role) == fillna(map_role(role), role)

Delim == <<" ", "/", " ">>

\* sep in s
contains(s, sep) ==
    \E i \in 1..(Len(s) - Len(sep) + 1) : SubSeq(s, i, i + Len(sep) - 1) = sep

\* s.split(sep): the occurrences found scanning left to right, each search
\* starting after the end of the occurrence before it
RECURSIVE split_sep(_, _)
split_sep(s, sep) ==
    LET hits == { i \in 1..(Len(s) - Len(sep) + 1) :
                    SubSeq(s, i, i + Len(sep) - 1) = sep }
    IN  IF hits = {} THEN <<s>>
        ELSE LET i == SetMin(hits)
             IN  <<SubSeq(s, 1, i - 1)>>
                 \o split_sep(SubSeq(s, i + Len(sep), Len(s)), sep)

\* faulty variant of team_of: the first segment for the last
team_of_first(path) ==
    IF isinstance_str(path) /\ contains(path, Delim)
    THEN split_sep(path, Delim)[1]
    ELSE path

\* line 58
team_of(path) ==
    IF isinstance_str(path) /\ contains(path, Delim)
    THEN split_sep(path, Delim)[Len(split_sep(path, Delim))]
    ELSE path

\* faulty variant of team_parent_of: the test on the number of segments left out
team_parent_of_unguarded(path) ==
    IF isinstance_str(path)
    THEN split_sep(path, Delim)[SetMax({1, Len(split_sep(path, Delim)) - 1})]
    ELSE None

\* line 59
team_parent_of(path) ==
    IF isinstance_str(path) /\ Len(split_sep(path, Delim)) > 1
    THEN split_sep(path, Delim)[Len(split_sep(path, Delim)) - 1]
    ELSE None

\* lines 57-60 on one row
enrich_row(r) ==
    [CanonicalRole |-> r.CanonicalRole,
     DepartmentPathEN |-> r.DepartmentPathEN,
     TopLevelDepartmentEN |-> r.TopLevelDepartmentEN,
     RoleDisplayName |-> role_display_name(r.CanonicalRole),
     Team |-> team_of(r.DepartmentPathEN),
     TeamParent |-> team_parent_of(r.DepartmentPathEN),
     SearchableDepartment |-> searchable_department(r.TopLevelDepartmentEN)]

\* lines 28-62: the frame read from the database with the four columns added
load_and_process_data(rows) == [i \in 1..Len(rows) |-> enrich_row(rows[i])]

\* line 65 with the RangeIndex read_sql_query gives the frame
df_master_of(rows) ==
    [i \in 1..Len(rows) |-> [index |-> i] @@ load_and_process_data(rows)[i]]

----------------------------------------------------------------------------
(* The page script, src/app.py lines 111-158 *)

\* df[col]
column(df, col) == [i \in 1..Len(df) |-> df[i][col]]

\* Series.dropna()
dropna(s) == SelectSeq(s, LAMBDA v : ~isnull(v))

\* Series.unique(): the distinct values in order of first appearance
RECURSIVE unique(_)
unique(s) ==
    IF s = <<>> THEN <<>>
    ELSE LET init == unique(SubSeq(s, 1, Len(s) - 1))
             last == s[Len(s)]
         IN  IF \E i \in 1..Len(init) : init[i] = last
             THEN init ELSE Append(init, last)

\* the list with x put before the first element greater than x
insert_sorted(l, x) ==
    LET after == { i \in 1..Len(l) : str_lt(x, l[i]) }
        n     == IF after = {} THEN Len(l) + 1 ELSE SetMin(after)
    IN  SubSeq(l, 1, n - 1) \o <<x>> \o SubSeq(l, n, Len(l))

\* sorted(s) of a list of str
RECURSIVE sorted(_)
sorted(s) ==
    IF s = <<>> THEN <<>>
    ELSE insert_sorted(sorted(SubSeq(s, 1, Len(s) - 1)), s[Len(s)])

\* faulty variant of available_options: the sorted() call left out
available_options_unsorted(df, col) == unique(dropna(column(df, col)))

\* sorted(df[col].dropna().unique()), lines 111, 112, 118, 126
available_options(df, col) == sorted(unique(dropna(column(df, col))))

\* df[df[col].isin(selection)]
keep_isin(df, col, selection) ==
    SelectSeq(df, LAMBDA r : r[col] \in selection)

\* df[~df[col].isin(selection)]
drop_isin(df, col, selection) ==
    SelectSeq(df, LAMBDA r : r[col] \notin selection)

\* faulty variant of department_step: the test for an empty selection left out
department_step_unguarded(df, selection) ==
    keep_isin(df, "SearchableDepartment", selection)

\* line 116
department_step(df, selection) ==
    IF selection # {} THEN keep_isin(df, "SearchableDepartment", selection)
    ELSE df

\* faulty variant of role_step: the filter taken from df_master, not df_filtered
role_step_on_master(df, selection) ==
    IF selection # {} THEN keep_isin(df_master, "RoleDisplayName", selection)
    ELSE df

\* lines 121-122
role_step(df, selection) ==
    IF selection # {} THEN keep_isin(df, "RoleDisplayName", selection) ELSE df

\* lines 129-130
include_step(df, selection) ==
    IF selection # {} THEN keep_isin(df, "Team", selection) ELSE df

\* faulty variant of exclude_step: the ~ left out
exclude_step_keeps(df, selection) ==
    IF selection # {} THEN keep_isin(df, "Team", selection) ELSE df

\* lines 133-134
exclude_step(df, selection) ==
    IF selection # {} THEN drop_isin(df, "Team", selection) ELSE df

\* faulty variant of results_shown: and for or
results_shown_both(depts, roles) == depts # {} /\ roles # {}

\* line 140
results_shown(depts, roles) == depts # {} \/ roles # {}

\* line 145
download_offered(df) == df # <<>>

\* st.multiselect(options=...): any subset of the options offered
Selections(options) == SUBSET {options[i] : i \in 1..Len(options)}

RowPool ==
    {
      \* 'director', 'F / P / B', 'Finance Canada'
      [CanonicalRole |-> <<"d", "i", "r", "e", "c", "t", "o", "r">>,
       DepartmentPathEN |-> <<"F", " ", "/", " ", "P", " ", "/", " ", "B">>,
       TopLevelDepartmentEN |-> <<"F", "i", "n", "a", "n", "c", "e", " ", "C", "a", "n", "a", "d", "a">>],
      \* 'manager', 'F / P / A', 'Finance Canada'
      [CanonicalRole |-> <<"m", "a", "n", "a", "g", "e", "r">>,
       DepartmentPathEN |-> <<"F", " ", "/", " ", "P", " ", "/", " ", "A">>,
       TopLevelDepartmentEN |-> <<"F", "i", "n", "a", "n", "c", "e", " ", "C", "a", "n", "a", "d", "a">>],
      \* 'bespoke title', 'F / P / B', 'Health (H)'
      [CanonicalRole |-> <<"b", "e", "s", "p", "o", "k", "e", " ", "t", "i", "t", "l", "e">>,
       DepartmentPathEN |-> <<"F", " ", "/", " ", "P", " ", "/", " ", "B">>,
       TopLevelDepartmentEN |-> <<"H", "e", "a", "l", "t", "h", " ", "(", "H", ")">>],
      \* None, None, None
      [CanonicalRole |-> None,
       DepartmentPathEN |-> None,
       TopLevelDepartmentEN |-> None],
      \* 'director', 'S', 'Health (H)'
      [CanonicalRole |-> <<"d", "i", "r", "e", "c", "t", "o", "r">>,
       DepartmentPathEN |-> <<"S">>,
       TopLevelDepartmentEN |-> <<"H", "e", "a", "l", "t", "h", " ", "(", "H", ")">>],
      \* 'manager', 'F / P / B', 'of'
      [CanonicalRole |-> <<"m", "a", "n", "a", "g", "e", "r">>,
       DepartmentPathEN |-> <<"F", " ", "/", " ", "P", " ", "/", " ", "B">>,
       TopLevelDepartmentEN |-> <<"o", "f">>]
    }

Rosters == UNION {[1..n -> RowPool] : n \in 0..MaxRows}

NothingShown == [results |-> FALSE, download |-> FALSE, info |-> FALSE]

\* the script's names before the run assigns them
ScriptUnset ==
    /\ selected_searchable_departments = {}
    /\ df_filtered = <<>>
    /\ roles_in_filtered_df = <<>>
    /\ selected_roles_display = {}
    /\ teams_in_filtered_df = <<>>
    /\ teams_to_include = {}
    /\ teams_to_exclude = {}
    /\ shown = NothingShown

AIdle ==
    /\ name = None /\ acronym = Unset /\ SearchableDepartment = Unset
    /\ apc = "idle"

RIdle == raw_row = None /\ out_row = Unset /\ rpc = "idle"

PIdle ==
    /\ pc = "idle" /\ raw = <<>> /\ df_master = <<>>
    /\ departments = <<>> /\ roles_for_display = <<>>
    /\ ScriptUnset

Init ==
    /\ raw \in Rosters
    /\ pc = "load"
    /\ df_master = <<>>
    /\ departments = <<>>
    /\ roles_for_display = <<>>
    /\ ScriptUnset
    /\ AIdle /\ RIdle

\* lines 65, 111, 112
Load ==
    /\ pc = "load"
    /\ df_master' = df_master_of(raw)
    /\ departments' = available_options(df_master', "SearchableDepartment")
    /\ roles_for_display' = available_options(df_master', "RoleDisplayName")
    /\ pc' = "department"
    /\ UNCHANGED <<raw, selected_searchable_departments, df_filtered,
                   roles_in_filtered_df, selected_roles_display,
                   teams_in_filtered_df, teams_to_include, teams_to_exclude,
                   shown>>
    /\ UNCHANGED <<avars, rvars>>

\* lines 114-118
SelectDepartments ==
    /\ pc = "department"
    /\ \E sel \in Selections(departments) :
         /\ selected_searchable_departments' = sel
         /\ df_filtered' = department_step(df_master, sel)
    /\ roles_in_filtered_df' = available_options(df_filtered', "RoleDisplayName")
    /\ pc' = "role"
    /\ UNCHANGED <<raw, df_master, departments, roles_for_display,
                   selected_roles_display, teams_in_filtered_df,
                   teams_to_include, teams_to_exclude, shown>>
    /\ UNCHANGED <<avars, rvars>>

\* lines 119-126
SelectRoles ==
    /\ pc = "role"
    /\ \E sel \in Selections(roles_in_filtered_df) :
         /\ selected_roles_display' = sel
         /\ df_filtered' = role_step(df_filtered, sel)
    /\ teams_in_filtered_df' = available_options(df_filtered', "Team")
    /\ pc' = "include"
    /\ UNCHANGED <<raw, df_master, departments, roles_for_display,
                   selected_searchable_departments, roles_in_filtered_df,
                   teams_to_include, teams_to_exclude, shown>>
    /\ UNCHANGED <<avars, rvars>>

\* lines 128-130
SelectTeamsToInclude ==
    /\ pc = "include"
    /\ \E sel \in Selections(teams_in_filtered_df) :
         /\ teams_to_include' = sel
         /\ df_filtered' = include_step(df_filtered, sel)
    /\ pc' = "exclude"
    /\ UNCHANGED <<raw, df_master, departments, roles_for_display,
                   selected_searchable_departments, roles_in_filtered_df,
                   selected_roles_display, teams_in_filtered_df,
                   teams_to_exclude, shown>>
    /\ UNCHANGED <<avars, rvars>>

\* lines 132-134
SelectTeamsToExclude ==
    /\ pc = "exclude"
    /\ \E sel \in Selections(teams_in_filtered_df) :
         /\ teams_to_exclude' = sel
         /\ df_filtered' = exclude_step(df_filtered, sel)
    /\ pc' = "display"
    /\ UNCHANGED <<raw, df_master, departments, roles_for_display,
                   selected_searchable_departments, roles_in_filtered_df,
                   selected_roles_display, teams_in_filtered_df,
                   teams_to_include, shown>>
    /\ UNCHANGED <<avars, rvars>>

\* lines 140-158
Display ==
    /\ pc = "display"
    /\ shown' =
         IF results_shown(selected_searchable_departments, selected_roles_display)
         THEN [results |-> TRUE, download |-> download_offered(df_filtered),
               info |-> FALSE]
         ELSE [results |-> FALSE, download |-> FALSE, info |-> TRUE]
    /\ pc' = "done"
    /\ UNCHANGED <<raw, df_master, departments, roles_for_display,
                   selected_searchable_departments, df_filtered,
                   roles_in_filtered_df, selected_roles_display,
                   teams_in_filtered_df, teams_to_include, teams_to_exclude>>
    /\ UNCHANGED <<avars, rvars>>

\* a widget interaction reruns the script from the top; load_and_process_data
\* is cached (line 27), lines 111-112 give the same lists again
Rerun ==
    /\ pc = "done"
    /\ pc' = "department"
    /\ selected_searchable_departments' = {}
    /\ df_filtered' = <<>>
    /\ roles_in_filtered_df' = <<>>
    /\ selected_roles_display' = {}
    /\ teams_in_filtered_df' = <<>>
    /\ teams_to_include' = {}
    /\ teams_to_exclude' = {}
    /\ shown' = NothingShown
    /\ UNCHANGED <<raw, df_master, departments, roles_for_display>>
    /\ UNCHANGED <<avars, rvars>>

Next ==
    \/ Load
    \/ SelectDepartments
    \/ SelectRoles
    \/ SelectTeamsToInclude
    \/ SelectTeamsToExclude
    \/ Display
    \/ Rerun

Spec == Init /\ [][Next]_vars

----------------------------------------------------------------------------
(* create_acronym and line 60 on every short department name *)

NameAlphabet == {"o", "f", "F", "&", " ", "\n", "(", ")"}

Names == UNION {[1..n -> NameAlphabet] : n \in 0..MaxNameLen} \cup {None}

AcronymInit ==
    /\ name \in Names
    /\ acronym = Unset
    /\ SearchableDepartment = Unset
    /\ apc = "call"
    /\ RIdle /\ PIdle

\* lines 11-15 and line 60 applied to name
CallCreateAcronym ==
    /\ apc = "call"
    /\ acronym' = create_acronym(name)
    /\ SearchableDepartment' = searchable_department(name)
    /\ apc' = "done"
    /\ UNCHANGED <<name, rvars, pvars>>

SpecAcronym == AcronymInit /\ [][CallCreateAcronym]_vars

----------------------------------------------------------------------------
(* lines 57-59 on every row with a short path *)

PathAlphabet == {"A", "B", " ", "/"}

\* a value of the column that is neither a str nor null
NotAStr == <<"42">>

Paths ==
    UNION {[1..n -> PathAlphabet] : n \in 0..MaxPathLen} \cup {None, NotAStr}

Roles ==
    { <<"d", "i", "r", "e", "c", "t", "o", "r">>,
      <<"m", "a", "n", "a", "g", "e", "r">>,
      <<"e", "x", "e", "c", "u", "t", "i", "v", "e", " ", "a", "s", "s", "i", "s", "t", "a", "n", "t">>,
      <<"D", "i", "r", "e", "c", "t", "o", "r">>,
      <<"b", "e", "s", "p", "o", "k", "e", " ", "t", "i", "t", "l", "e">>,
      <<>>, None }

RowInit ==
    /\ raw_row \in [CanonicalRole : Roles, DepartmentPathEN : Paths]
    /\ out_row = Unset
    /\ rpc = "call"
    /\ AIdle /\ PIdle

\* lines 57-59 applied to raw_row
EnrichRow ==
    /\ rpc = "call"
    /\ out_row' =
         [RoleDisplayName |-> role_display_name(raw_row.CanonicalRole),
          Team |-> team_of(raw_row.DepartmentPathEN),
          TeamParent |-> team_parent_of(raw_row.DepartmentPathEN)]
    /\ rpc' = "done"
    /\ UNCHANGED <<raw_row, avars, pvars>>

SpecRow == RowInit /\ [][EnrichRow]_vars

----------------------------------------------------------------------------
(* Vocabulary of the properties *)

AfterDepartment == {"role", "include", "exclude", "display", "done"}
AfterRole == {"include", "exclude", "display", "done"}
AfterInclude == {"exclude", "display", "done"}
AfterExclude == {"display", "done"}

Elems(s) == {s[i] : i \in 1..Len(s)}

StrictlyAscending(l) == \A i \in 1..(Len(l) - 1) : str_lt(l[i], l[i + 1])

\* the rows of the enriched roster that pass each step's test
PassDepartment ==
    { i \in 1..Len(df_master) :
        selected_searchable_departments = {}
        \/ df_master[i].SearchableDepartment \in selected_searchable_departments }

PassRole ==
    { i \in PassDepartment :
        selected_roles_display = {}
        \/ df_master[i].RoleDisplayName \in selected_roles_display }

PassInclude ==
    { i \in PassRole :
        teams_to_include = {} \/ df_master[i].Team \in teams_to_include }

PassExclude ==
    { i \in PassInclude :
        teams_to_exclude = {} \/ df_master[i].Team \notin teams_to_exclude }

\* l lists, ascending and once each, the non-null values of col in rows S
IsOptionsOf(l, S, col) ==
    /\ StrictlyAscending(l)
    /\ Elems(l) = {df_master[i][col] : i \in S} \ {None}

\* a is b with some rows left out, the others in b's order
IsSubsequence(a, b) ==
    \E f \in [1..Len(a) -> 1..Len(b)] :
        /\ \A i \in 1..Len(a) : a[i] = b[f[i]]
        /\ \A i \in 1..(Len(a) - 1) : f[i] < f[i + 1]

----------------------------------------------------------------------------
(* C1 *)

RoleOptionsCascade ==
    pc \in AfterDepartment
        => IsOptionsOf(roles_in_filtered_df, PassDepartment, "RoleDisplayName")

IncludeOptionsCascade ==
    pc \in AfterRole => IsOptionsOf(teams_in_filtered_df, PassRole, "Team")

\* C1 as stated: the options offered at every step are the ascending
\* distinct non-null values of the step's column over the rows that survived
\* all the steps before it; for team-exclude (line 132 runs at pc = "exclude"
\* and offers teams_in_filtered_df) those are the rows that survived
\* department, role and team-include.
C1_AsStated ==
    /\ RoleOptionsCascade
    /\ IncludeOptionsCascade
    /\ pc \in AfterInclude => IsOptionsOf(teams_in_filtered_df, PassInclude, "Team")

\* C1 amended: role options come from the department-filtered rows,
\* team-include options from the department+role-filtered rows, and
\* team-exclude is offered the same list as team-include: the teams of the
\* department+role-filtered rows, whatever team-include selected.
C1_OptionsCascade ==
    /\ RoleOptionsCascade
    /\ IncludeOptionsCascade
    /\ pc \in AfterInclude => IsOptionsOf(teams_in_filtered_df, PassRole, "Team")

\* all three selections narrow the roster, two teams are offered in sorted
\* order, and team-include left fewer teams than team-exclude is offered
C1_Witness ==
    /\ pc = "exclude"
    /\ selected_searchable_departments # {}
    /\ selected_roles_display # {}
    /\ teams_to_include # {}
    /\ Len(teams_in_filtered_df) >= 2
    /\ Len(roles_in_filtered_df) < Len(roles_for_display)
    /\ {df_filtered[i].Team : i \in 1..Len(df_filtered)}
          # Elems(teams_in_filtered_df)

----------------------------------------------------------------------------
(* C5 *)

\* C5: once the exclude step ran, no row of the result has a Team in a
\* non-empty team-exclude selection, also when the value is in team-include
\* too; when both selections are the same non-empty set the result is empty.
C5_ExcludeWins ==
    pc \in AfterExclude =>
        /\ teams_to_exclude # {} =>
             \A i \in 1..Len(df_filtered) :
                 df_filtered[i].Team \notin teams_to_exclude
        /\ (teams_to_include # {} /\ teams_to_include = teams_to_exclude)
             => df_filtered = <<>>

\* include = {A} = exclude where rows of team A had survived department+role
C5_Witness ==
    /\ pc = "done"
    /\ Cardinality(teams_to_include) = 1
    /\ teams_to_exclude = teams_to_include
    /\ \E i \in PassRole : df_master[i].Team \in teams_to_include
    /\ df_filtered = <<>>

----------------------------------------------------------------------------
(* C6 *)

\* C6: with the four selections empty the cascade returns the enriched
\* roster: the same rows in the same order with the same values.
C6_Identity ==
    ( /\ pc \in AfterExclude
      /\ selected_searchable_departments = {}
      /\ selected_roles_display = {}
      /\ teams_to_include = {}
      /\ teams_to_exclude = {} )
        => df_filtered = df_master

C6_Witness ==
    /\ pc = "done"
    /\ selected_searchable_departments = {}
    /\ selected_roles_display = {}
    /\ teams_to_include = {}
    /\ teams_to_exclude = {}
    /\ Len(df_master) >= 2
    /\ df_master[1] # df_master[2]
    /\ df_filtered = df_master

----------------------------------------------------------------------------
(* C7 *)

\* C7: every filter step leaves an order-preserving sub-sequence of the
\* result of the step before it, whose rows are rows of the enriched roster
\* with their values unchanged, and no step changes df_master.
C7_OnlyNarrows ==
    [][ /\ pc \in {"role", "include", "exclude"}
           => IsSubsequence(df_filtered', df_filtered)
        /\ pc \in {"department", "role", "include", "exclude"}
           => /\ IsSubsequence(df_filtered', df_master)
              /\ \A i \in 1..Len(df_filtered') :
                    df_filtered'[i] = df_master[df_filtered'[i].index]
        /\ pc # "load" => df_master' = df_master ]_vars

\* a run where the role step and the exclude step each dropped a row
C7_Witness ==
    /\ pc = "done"
    /\ selected_roles_display # {}
    /\ teams_to_exclude # {}
    /\ Len(df_filtered) >= 1
    /\ Cardinality(PassDepartment) > Cardinality(PassRole)
    /\ Cardinality(PassInclude) > Len(df_filtered)

----------------------------------------------------------------------------
(* C10 *)

----------------------------------------------------------------------------
(* C2, C3: the acronym the contract describes *)

\* s[i] lies in a parenthesized sub-string: it is a parenthesis or follows
\* more "(" than ")"
InParens(s, i) ==
    Cardinality({j \in 1..i : s[j] = "("})
        > Cardinality({j \in 1..(i - 1) : s[j] = ")"})

\* s with every parenthesized sub-string removed
WithoutParens(s) ==
    LET keep == { i \in 1..Len(s) : ~InParens(s, i) }
    IN  [n \in 1..Cardinality(keep) |->
            s[CHOOSE i \in keep : Cardinality({j \in keep : j <= i}) = n]]

\* the whitespace-delimited words outside parentheses that are no stop-words
SignificantWords(s) ==
    SelectSeq(split_ws(WithoutParens(s)),
              LAMBDA w : str_lower(w) \notin stop_words)

ContractAcronym(s) ==
    [n \in 1..Len(SignificantWords(s)) |-> upper(SignificantWords(s)[n][1])]

\* the parentheses of s are balanced and no line break lies inside them
WellFormed(s) ==
    LET opens(i)  == Cardinality({j \in 1..i : s[j] = "("})
        closes(i) == Cardinality({j \in 1..i : s[j] = ")"})
    IN  /\ opens(Len(s)) = closes(Len(s))
        /\ \A i \in 1..Len(s) : opens(i) >= closes(i)
        /\ \A i \in 1..Len(s) : s[i] = "\n" => opens(i) = closes(i)

\* C2 as stated, on the names whose parentheses are well formed: for a str
\* name, create_acronym is the upper-cased first characters, in order, of
\* the words outside every parenthesized sub-string that are no stop-words
\* (words between two groups kept).
C2_AsStated ==
    (apc = "done" /\ isinstance_str(name) /\ WellFormed(name))
        => acronym = ContractAcronym(name)

\* C3 as stated, on the names whose parentheses are well formed and on
\* what is no str: create_acronym(d) holds upper-case letters only and is
\* no longer than the number of non-stop words of d outside parentheses
\* (none for a d that is no str).
C3_AsStated ==
    (apc = "done" /\ (isinstance_str(name) => WellFormed(name))) =>
        /\ \A i \in 1..Len(acronym) : IsUpperChar(acronym[i])
        /\ Len(acronym)
             <= (IF isinstance_str(name) THEN Len(SignificantWords(name)) ELSE 0)

----------------------------------------------------------------------------
(* C4, C9: Team and TeamParent *)

\* the positions where " / " occurs in p
Occurrences(p) ==
    { i \in 1..(Len(p) - 2) : p[i] = " " /\ p[i + 1] = "/" /\ p[i + 2] = " " }

\* the occurrences a left-to-right scan finds: those not overlapping an
\* occurrence found before them
Scanned(p) ==
    CHOOSE G \in SUBSET Occurrences(p) :
        \A i \in Occurrences(p) :
            i \in G <=> \A g \in G : g < i => g + 3 <= i

\* the text after the last of the occurrences O
AfterLast(p, O) == SubSeq(p, SetMax(O) + 3, Len(p))

\* the text between the two last of the occurrences O, from the start of p
\* when O has one
BetweenLastTwo(p, O) ==
    IF O \ {SetMax(O)} = {} THEN SubSeq(p, 1, SetMax(O) - 1)
    ELSE SubSeq(p, SetMax(O \ {SetMax(O)}) + 3, SetMax(O) - 1)

\* C4 as stated: for a str path containing " / ", Team is the text after
\* the last occurrence of " / " and TeamParent the text between the
\* second-last and the last occurrence, overlapping occurrences included.
C4_AsStated ==
    LET p == raw_row.DepartmentPathEN
    IN  (rpc = "done" /\ isinstance_str(p) /\ Occurrences(p) # {}) =>
            /\ out_row.Team = AfterLast(p, Occurrences(p))
            /\ out_row.TeamParent = BetweenLastTwo(p, Occurrences(p))

\* C4 amended: the occurrences are those a left-to-right scan finds without
\* overlap (all of them when none overlap): Team is the text after the last
\* of these and TeamParent the text between the one before it, or the start
\* of the path, and it.
C4_SplitSegments ==
    LET p == raw_row.DepartmentPathEN
    IN  (rpc = "done" /\ isinstance_str(p) /\ Occurrences(p) # {}) =>
            /\ out_row.Team = AfterLast(p, Scanned(p))
            /\ out_row.TeamParent = BetweenLastTwo(p, Scanned(p))
            /\ Scanned(p) = Occurrences(p) =>
                 /\ out_row.Team = AfterLast(p, Occurrences(p))
                 /\ out_row.TeamParent = BetweenLastTwo(p, Occurrences(p))

\* " / / A": the occurrences at 1 and 3 overlap, the scan finds the first
C4_Witness ==
    /\ rpc = "done"
    /\ raw_row.DepartmentPathEN = <<" ", "/", " ", "/", " ", "A">>
    /\ out_row.Team = <<"/", " ", "A">>
    /\ out_row.TeamParent = <<>>

\* C9: for a path that is no str, or a str without " / ", Team is the
\* value itself (null for null) and TeamParent is null.
C9_NoDelimiter ==
    LET p == raw_row.DepartmentPathEN
    IN  (rpc = "done" /\ (~isinstance_str(p) \/ Occurrences(p) = {})) =>
            /\ out_row.Team = p
            /\ out_row.TeamParent = None

\* "A/B": a slash, not the delimiter
C9_Witness ==
    /\ rpc = "done"
    /\ raw_row.DepartmentPathEN = <<"A", "/", "B">>
    /\ out_row.Team = <<"A", "/", "B">>
    /\ out_row.TeamParent = None

----------------------------------------------------------------------------
(* C8: RoleDisplayName *)

LabelOfKeyOrRaw ==
    LET r == raw_row.CanonicalRole
    IN  /\ r \in DOMAIN role_hierarchy => out_row.RoleDisplayName = role_hierarchy[r]
        /\ r \notin DOMAIN role_hierarchy => out_row.RoleDisplayName = r
        /\ r = <<"d", "i", "r", "e", "c", "t", "o", "r">>
             => out_row.RoleDisplayName = <<"0", "9", " ", "-", " ", "D", "i", "r", "e", "c", "t", "o", "r">>

\* C8 as stated: RoleDisplayName is the mapping's label for a key of the
\* mapping and the raw CanonicalRole otherwise, and no row gets an empty
\* label.
C8_AsStated ==
    rpc = "done" =>
        /\ LabelOfKeyOrRaw
        /\ out_row.RoleDisplayName \notin {<<>>, None}

\* C8 amended: RoleDisplayName is the mapping's label for a key of the
\* mapping and the raw CanonicalRole otherwise; the label is empty or null
\* only for a CanonicalRole that is itself empty or null.
C8_RoleLabel ==
    rpc = "done" =>
        /\ LabelOfKeyOrRaw
        /\ out_row.RoleDisplayName \in {<<>>, None}
             => raw_row.CanonicalRole = out_row.RoleDisplayName

\* an unmapped role falls back to itself
C8_Witness ==
    /\ rpc = "done"
    /\ raw_row.CanonicalRole = <<"b", "e", "s", "p", "o", "k", "e", " ", "t", "i", "t", "l", "e">>
    /\ out_row.RoleDisplayName = <<"b", "e", "s", "p", "o", "k", "e", " ", "t", "i", "t", "l", "e">>

====
